---- MODULE Spec2Model ----
(***************************************************************************)
(* gstools.covmodel.tools: rad_fac, set_len_anis, check_bounds,            *)
(* check_arg_in_bounds and default_arg_from_bounds.                        *)
(*                                                                         *)
(* The functions compute on Python floats (IEEE-754 binary64).  The model  *)
(* keeps the structure of that number format and reduces its width: a      *)
(* binary floating-point format with MantBits bits of significand,         *)
(* exponents up to MaxExp, round-to-nearest-even, overflow to +-inf, and   *)
(* the unordered value NaN.  A number is stored as an integer count of     *)
(* the smallest step 2^-(MantBits-1), so 1.0 is Unit.  (binary64 is the    *)
(* same format with MantBits = 53 and MaxExp = 1023.)  There is one zero:  *)
(* the sign of zero is not modelled.                                       *)
(***************************************************************************)
EXTENDS Integers, Sequences, FiniteSets, TLC

VARIABLES model, call, ret

vars == <<model, call, ret>>

\* ------------------------------------------------------------ bounds
MantBits == 2
MaxDim == 3
MaxLen == 3
MaxAnis == 2
MaxBndLen == 4

\* ------------------------------------------------------------ floats
RECURSIVE Pow2(_)
Pow2(n) == IF n = 0 THEN 1 ELSE 2 * Pow2(n - 1)

MaxExp == MantBits

Unit == Pow2(MantBits - 1)

MaxFinite == (Pow2(MantBits) - 1) * Pow2(MaxExp)

PInf == 2 * Pow2(MantBits) * Pow2(MaxExp)

NInf == 0 - PInf

NaN == PInf + 1

Zero == 0

One == Unit

Two == 2 * Unit

Half == Unit \div 2

Abs(n) == IF n < 0 THEN 0 - n ELSE n

\* the spacing of the format at magnitude n >= 0
RECURSIVE Ulp(_)
Ulp(n) == IF n < Pow2(MantBits) THEN 1 ELSE 2 * Ulp(n \div 2)

IsRepr(n) == Abs(n) <= MaxFinite /\ Abs(n) % Ulp(Abs(n)) = 0

Finite == {n \in (0 - MaxFinite)..MaxFinite : IsRepr(n)}

Floats == Finite \cup {NInf, PInf, NaN}

IsInf(a) == a = PInf \/ a = NInf

\* num/den >= 0 (in steps) rounded to the nearest number of the format,
\* ties to the even significand, beyond the largest finite number to +inf
RoundPos(num, den) ==
    LET f  == num \div den
        q  == Ulp(f)
        lo == (f \div q) * q
        hi == lo + q
        r  == IF 2 * num < (lo + hi) * den THEN lo
              ELSE IF 2 * num > (lo + hi) * den THEN hi
              ELSE IF (lo \div q) % 2 = 0 THEN lo ELSE hi
    IN  IF r > MaxFinite THEN PInf ELSE r

\* den > 0
RoundQ(num, den) ==
    IF num < 0 THEN 0 - RoundPos(0 - num, den) ELSE RoundPos(num, den)

FNeg(a) == IF a = NaN THEN NaN ELSE 0 - a

FAdd(a, b) ==
    IF a = NaN \/ b = NaN THEN NaN
    ELSE IF IsInf(a) /\ IsInf(b) THEN (IF a = b THEN a ELSE NaN)
    ELSE IF IsInf(a) THEN a
    ELSE IF IsInf(b) THEN b
    ELSE RoundQ(a + b, 1)

FSub(a, b) == FAdd(a, FNeg(b))

Sign(a) == IF a < 0 THEN 0 - 1 ELSE 1

\* numpy float64 division: x/0 is +-inf, 0/0 is NaN (a warning, no error)
FDiv(a, b) ==
    IF a = NaN \/ b = NaN THEN NaN
    ELSE IF IsInf(a) /\ IsInf(b) THEN NaN
    ELSE IF IsInf(a) THEN Sign(a) * Sign(b) * PInf
    ELSE IF IsInf(b) THEN Zero
    ELSE IF b = 0 THEN (IF a = 0 THEN NaN ELSE Sign(a) * PInf)
    ELSE Sign(b) * RoundQ(a * Unit, Abs(b))

\* comparisons: every comparison with NaN is false
FLt(a, b) == a # NaN /\ b # NaN /\ a < b

FLe(a, b) == a # NaN /\ b # NaN /\ a <= b

FGt(a, b) == a # NaN /\ b # NaN /\ a > b

FGe(a, b) == a # NaN /\ b # NaN /\ a >= b

\* ------------------------------------------------------------ values
\* a float given alone (0-d) or a list / 1-d array of floats
Scalar(x) == [scalar |-> TRUE, items |-> <<x>>]

Array(s) == [scalar |-> FALSE, items |-> s]

\* np.atleast_1d(np.array(a, dtype=np.double))
AtLeast1d(a) == a.items

Take(s, n) == IF Len(s) <= n THEN s ELSE SubSeq(s, 1, n)

SeqsUpTo(S, n) == UNION {[1..k -> S] : k \in 0..n}

Return(v) == [kind |-> "return", exc |-> "", value |-> v]

Raise(e, v) == [kind |-> "raise", exc |-> e, value |-> v]

Tags == {<<"o", "o">>, <<"o", "c">>, <<"c", "o">>, <<"c", "c">>}

\* ------------------------------------------------------------ rad_fac
\* one entry of the result: k * r^r_pow * sqrt(pi)^sqrtpi_pow, divided by
\* gamma(div_gamma/2.0 + 1.0) when div_gamma > 0
RadTerm(k, x, rp, sp, g) ==
    [k |-> k, r |-> x, r_pow |-> rp, sqrtpi_pow |-> sp, div_gamma |-> g]

\* the result of a numpy expression in r: r's shape, one entry per entry of r
LikeR(r, entries) == [scalar |-> r.scalar, items |-> entries]

\* variant: dim = 1 gives 2.0 once per entry of r
RadFacBroadcast(dim, r) ==
    LET n == DOMAIN r.items
    IN  IF dim = 1 THEN LikeR(r, [i \in n |-> Two])
        ELSE IF dim = 2 THEN LikeR(r, [i \in n |-> RadTerm(2, r.items[i], 1, 2, 0)])
        ELSE IF dim = 3 THEN LikeR(r, [i \in n |-> RadTerm(4, r.items[i], 2, 2, 0)])
        ELSE LikeR(r, [i \in n |-> RadTerm(dim, r.items[i], dim - 1, dim, dim)])

RadFac(dim, r) ==
    LET n == DOMAIN r.items
    IN  IF dim = 1 THEN Scalar(Two)
        ELSE IF dim = 2 THEN LikeR(r, [i \in n |-> RadTerm(2, r.items[i], 1, 2, 0)])
        ELSE IF dim = 3 THEN LikeR(r, [i \in n |-> RadTerm(4, r.items[i], 2, 2, 0)])
        ELSE LikeR(r, [i \in n |-> RadTerm(dim, r.items[i], dim - 1, dim, dim)])

\* ------------------------------------------------------------ set_len_anis
\* gstools.tools.geometric.set_anis: at most dim-1 values of anis, filled up
\* in front with 1.0 to dim-1 values
SetAnis(dim, anis) ==
    LET a == Take(AtLeast1d(anis), dim - 1)
    IN  [i \in 1..(dim - 1) |->
            IF i <= dim - 1 - Len(a) THEN One ELSE a[i - (dim - 1 - Len(a))]]

\* variant: np.pad in its "constant" mode, which fills with 0.0
PadConstant(ls, dim) == [i \in 1..dim |-> IF i <= Len(ls) THEN ls[i] ELSE Zero]

\* np.pad(ls, (0, dim - len(ls)), "edge")
PadEdge(ls, dim) == [i \in 1..dim |-> IF i <= Len(ls) THEN ls[i] ELSE ls[Len(ls)]]

LenScaleRatios(ls, dim) ==
    LET padded == IF Len(ls) < dim THEN PadEdge(ls, dim) ELSE ls
    IN  [i \in 1..(dim - 1) |-> FDiv(padded[i + 1], padded[1])]

\* variant: the test written as ani <= 0.0, which NaN passes
RatioNotLe(ani) == ~FLe(ani, Zero)

RatioOk(ani) == FGt(ani, Zero)

SetLenAnis(dim, len_scale, anis) ==
    LET ls_tmp == Take(AtLeast1d(len_scale), dim)
    IN  IF Len(ls_tmp) = 0 THEN Raise("IndexError", <<>>)
        ELSE LET out_len_scale == ls_tmp[1]
                 out_anis == IF Len(ls_tmp) = 1 THEN SetAnis(dim, anis)
                             ELSE LenScaleRatios(ls_tmp, dim)
             IN  IF \E i \in DOMAIN out_anis : ~RatioOk(out_anis[i])
                 THEN Raise("ValueError", out_anis)
                 ELSE Return(<<out_len_scale, out_anis>>)

\* ------------------------------------------------------------ check_bounds
CheckBounds(bounds) ==
    IF Len(bounds) \notin {2, 3} THEN FALSE
    ELSE IF FLe(bounds[2], bounds[1]) THEN FALSE
    ELSE IF Len(bounds) = 3 /\ bounds[3] \notin Tags THEN FALSE
    ELSE TRUE

\* ------------------------------------------------------------ check_arg_in_bounds
\* variant: the first violation wins (the upper check as an elif)
ErrorCaseFirstWins(bnd, val) ==
    LET lower == IF bnd[3][1] = "c"
                 THEN (IF FLt(val, bnd[1]) THEN 1 ELSE 0)
                 ELSE (IF FLe(val, bnd[1]) THEN 2 ELSE 0)
    IN  IF lower # 0 THEN lower
        ELSE IF bnd[3][2] = "c"
        THEN (IF FGt(val, bnd[2]) THEN 3 ELSE 0)
        ELSE (IF FGe(val, bnd[2]) THEN 4 ELSE 0)

\* lines 187-202: the lower check, then the upper check, which overwrites
ErrorCase(bnd, val) ==
    LET lower == IF bnd[3][1] = "c"
                 THEN (IF FLt(val, bnd[1]) THEN 1 ELSE 0)
                 ELSE (IF FLe(val, bnd[1]) THEN 2 ELSE 0)
    IN  IF bnd[3][2] = "c"
        THEN (IF FGt(val, bnd[2]) THEN 3 ELSE lower)
        ELSE (IF FGe(val, bnd[2]) THEN 4 ELSE lower)

\* lines 188-189: closed intervals by default
WithIntervalType(bnd) == IF Len(bnd) = 2 THEN Append(bnd, <<"c", "c">>) ELSE bnd

\* variant: bnd is the model's own list, not a copy, so the appended
\* interval type lands in model.arg_bounds
CheckArgInBoundsAliased(m, arg, val) ==
    IF arg \notin DOMAIN m.arg_bounds
    THEN [model |-> m, ret |-> Raise("ValueError", arg)]
    ELSE IF val = <<>> /\ arg \notin DOMAIN m.attrs
    THEN [model |-> m, ret |-> Raise("AttributeError", arg)]
    ELSE LET bnd == WithIntervalType(m.arg_bounds[arg])
             v   == IF val = <<>> THEN m.attrs[arg] ELSE val[1]
         IN  [model |-> [m EXCEPT !.arg_bounds[arg] = bnd],
              ret |-> Return(ErrorCase(bnd, v))]

\* variant: the attribute is read before the argument is looked up
CheckArgInBoundsAttrFirst(m, arg, val) ==
    IF val = <<>> /\ arg \notin DOMAIN m.attrs
    THEN [model |-> m, ret |-> Raise("AttributeError", arg)]
    ELSE IF arg \notin DOMAIN m.arg_bounds
    THEN [model |-> m, ret |-> Raise("ValueError", arg)]
    ELSE LET bnd == WithIntervalType(m.arg_bounds[arg])
             v   == IF val = <<>> THEN m.attrs[arg] ELSE val[1]
         IN  [model |-> m, ret |-> Return(ErrorCase(bnd, v))]

\* val is <<>> for None and <<v>> for a given value.  The result is the
\* model as the call leaves it and what the call returns or raises.
CheckArgInBounds(m, arg, val) ==
    IF arg \notin DOMAIN m.arg_bounds
    THEN [model |-> m, ret |-> Raise("ValueError", arg)]
    ELSE IF val = <<>> /\ arg \notin DOMAIN m.attrs
    THEN [model |-> m, ret |-> Raise("AttributeError", arg)]
    ELSE LET bnd == WithIntervalType(m.arg_bounds[arg])
             v   == IF val = <<>> THEN m.attrs[arg] ELSE val[1]
         IN  [model |-> m, ret |-> Return(ErrorCase(bnd, v))]

\* ------------------------------------------------------------ default_arg_from_bounds
IsFinite(a) == a # NaN /\ ~IsInf(a)

\* variant: the endpoints are tested for being finite
DefaultArgFromFinite(bounds) ==
    IF IsFinite(bounds[1]) /\ IsFinite(bounds[2])
    THEN FDiv(FAdd(bounds[1], bounds[2]), Two)
    ELSE IF IsFinite(bounds[1]) THEN FAdd(bounds[1], One)
    ELSE IF IsFinite(bounds[2]) THEN FSub(bounds[2], One)
    ELSE Zero

DefaultArgFromBounds(bounds) ==
    IF FGt(bounds[1], NInf) /\ FLt(bounds[2], PInf)
    THEN FDiv(FAdd(bounds[1], bounds[2]), Two)
    ELSE IF FGt(bounds[1], NInf) THEN FAdd(bounds[1], One)
    ELSE IF FLt(bounds[2], PInf) THEN FSub(bounds[2], One)
    ELSE Zero

\* ------------------------------------------------------------ inputs
NoModel == [arg_bounds |-> <<>>, attrs |-> <<>>]

NoCall == [op |-> "", args |-> <<>>]

NoRet == [kind |-> "", exc |-> "", value |-> <<>>]

\* third entries that are no interval type
BadTags == {<<"x", "x">>, <<"c">>, <<>>, <<"C", "C">>}

Filler(k) == [i \in 1..k |-> <<"c", "c">>]

BoundsInputs ==
    {<<>>} \cup {<<a>> : a \in Floats}
    \cup {<<a, b>> : a \in Floats, b \in Floats}
    \cup {<<a, b, t>> \o Filler(k) :
             a \in Floats, b \in Floats, t \in Tags \cup BadTags, k \in 0..(MaxBndLen - 3)}

BoundsPairs ==
    {<<a, b>> : a \in Floats, b \in Floats}
    \cup {<<a, b, t>> : a \in Floats, b \in Floats, t \in Tags}

LenVals == {FNeg(One), Zero, One, Two, PInf, NaN}

AnisVals == {FNeg(One), Zero, Half, Two, NaN}

LenInputs == {Scalar(x) : x \in LenVals} \cup {Array(s) : s \in SeqsUpTo(LenVals, MaxLen)}

AnisInputs == {Scalar(x) : x \in AnisVals} \cup {Array(s) : s \in SeqsUpTo(AnisVals, MaxAnis)}

RVals == {Zero, One, Two}

RInputs == {Scalar(x) : x \in RVals} \cup {Array(s) : s \in SeqsUpTo(RVals, MaxLen)}

\* ------------------------------------------------------------ calls
\* The functions keep no state between calls: a behaviour is one call, its
\* arguments drawn at the start, and the step that runs it.
RadFacCall(dim, r) == [op |-> "rad_fac", args |-> <<dim, r>>]

SetLenAnisCall(dim, len_scale, anis) ==
    [op |-> "set_len_anis", args |-> <<dim, len_scale, anis>>]

CheckBoundsCall(bounds) == [op |-> "check_bounds", args |-> <<bounds>>]

DefaultCall(bounds) == [op |-> "default_arg_from_bounds", args |-> <<bounds>>]

Init ==
    /\ model = NoModel
    /\ ret = NoRet
    /\ \/ \E dim \in 1..(MaxDim + 1), r \in RInputs : call = RadFacCall(dim, r)
       \/ \E dim \in 1..MaxDim, len_scale \in LenInputs, anis \in AnisInputs :
             call = SetLenAnisCall(dim, len_scale, anis)
       \/ \E bounds \in BoundsInputs : call = CheckBoundsCall(bounds)
       \/ \E bounds \in BoundsPairs : call = DefaultCall(bounds)

CallRadFac ==
    /\ call.op = "rad_fac" /\ ret.kind = ""
    /\ ret' = Return(RadFac(call.args[1], call.args[2]))
    /\ UNCHANGED <<model, call>>

CallSetLenAnis ==
    /\ call.op = "set_len_anis" /\ ret.kind = ""
    /\ ret' = SetLenAnis(call.args[1], call.args[2], call.args[3])
    /\ UNCHANGED <<model, call>>

CallCheckBounds ==
    /\ call.op = "check_bounds" /\ ret.kind = ""
    /\ ret' = Return(CheckBounds(call.args[1]))
    /\ UNCHANGED <<model, call>>

CallDefaultArgFromBounds ==
    /\ call.op = "default_arg_from_bounds" /\ ret.kind = ""
    /\ ret' = Return(DefaultArgFromBounds(call.args[1]))
    /\ UNCHANGED <<model, call>>

Next == CallRadFac \/ CallSetLenAnis \/ CallCheckBounds \/ CallDefaultArgFromBounds

Spec == Init /\ [][Next]_vars

\* ------------------------------------------------------------ calls on a model
ArgNames == {"var", "nugget"}

AttrVals == {FNeg(One), One, NaN}

\* the bounds a model has: for "var", or for nothing
ArgBounds == {<<>>} \cup {[n \in {"var"} |-> b] : b \in BoundsPairs}

\* the attributes a model has: var, or none
Attrs == {<<>>} \cup {[n \in {"var"} |-> x] : x \in AttrVals}

OptFloats == {<<>>} \cup {<<x>> : x \in Floats}

CheckArgCall(arg, val) == [op |-> "check_arg_in_bounds", args |-> <<arg, val>>]

InitModel ==
    /\ \E ab \in ArgBounds, at \in Attrs : model = [arg_bounds |-> ab, attrs |-> at]
    /\ \E arg \in ArgNames, val \in OptFloats : call = CheckArgCall(arg, val)
    /\ ret = NoRet

\* the call may be repeated with the same model, arg and val
CallCheckArgInBounds ==
    /\ call.op = "check_arg_in_bounds"
    /\ LET out == CheckArgInBounds(model, call.args[1], call.args[2])
       IN  model' = out.model /\ ret' = out.ret
    /\ UNCHANGED call

NextModel == CallCheckArgInBounds

SpecModel == InitModel /\ [][NextModel]_vars

\* ============================================================ claims
Returned(op) == call.op = op /\ ret.kind = "return"

Raised(op, exc) == call.op = op /\ ret.kind = "raise" /\ ret.exc = exc

Finished(op) == call.op = op /\ ret.kind # ""

\* ------------------------------------------------------------ rad_fac
SameShape(a, r) == a.scalar = r.scalar /\ Len(a.items) = Len(r.items)

\* C8 as stated: for every dim >= 1 the result of rad_fac(dim, r) has the
\* shape of r, and for dim = 1 it is 2.0 once per radius, not one scalar.
C8_SameShapeEveryDim ==
    Returned("rad_fac") =>
        LET dim == call.args[1]
            r   == call.args[2]
        IN  /\ SameShape(ret.value, r)
            /\ dim = 1 => \A i \in DOMAIN ret.value.items : ret.value.items[i] = Two

\* C8 amended: for dim >= 2 the result of rad_fac(dim, r) has the shape of
\* r, one entry per radius; for dim = 1 it is the single scalar 2.0,
\* whatever the shape of r.
C8_ShapeByDim ==
    Returned("rad_fac") =>
        LET dim == call.args[1]
            r   == call.args[2]
        IN  /\ dim >= 2 => SameShape(ret.value, r)
            /\ dim = 1 => ret.value.scalar /\ ret.value.items = <<Two>>

\* rad_fac(1, r) has returned for an array r of three radii
C8_Witness ==
    /\ Returned("rad_fac")
    /\ call.args[1] = 1
    /\ ~call.args[2].scalar /\ Len(call.args[2].items) = 3
    /\ ret.value = Scalar(Two)

\* ------------------------------------------------------------ set_len_anis
\* the length scales the call works on, and the ratios derived from them
Truncated(dim, len_scale) == Take(AtLeast1d(len_scale), dim)

DerivedRatios(dim, ls) ==
    [i \in 1..(dim - 1) |->
        FDiv(IF i + 1 <= Len(ls) THEN ls[i + 1] ELSE ls[Len(ls)], ls[1])]

\* C2: set_len_anis selects its mode by the number of length scales left
\* after truncation to dim entries.  With one entry (always so for dim = 1)
\* the ratios are those of set_anis(dim, anis); with two or more the list is
\* padded with its last value to dim entries and the dim-1 ratios are
\* len_scale[i+1]/len_scale[0], whatever anis is.  The primary length is the
\* first length scale in both modes.
C2_ModeByLength ==
    Finished("set_len_anis") =>
        LET dim  == call.args[1]
            anis == call.args[3]
            ls   == Truncated(dim, call.args[2])
        IN  /\ (dim = 1 /\ Len(ls) >= 1) => Len(ls) = 1
            /\ ret.kind = "return" => ret.value[1] = ls[1]
            /\ (Len(ls) = 1 /\ ret.kind = "return") => ret.value[2] = SetAnis(dim, anis)
            /\ Len(ls) >= 2 =>
                  /\ Len(DerivedRatios(dim, ls)) = dim - 1
                  /\ \/ ret.kind = "return" /\ ret.value = <<ls[1], DerivedRatios(dim, ls)>>
                     \/ /\ ret.kind = "raise" /\ ret.exc = "ValueError"
                        /\ ret.value = DerivedRatios(dim, ls)

\* set_len_anis(3, [1.0, 2.0], anis) has returned 1.0 and the ratios
\* [2.0, 2.0], for an anis that asks for other ratios
C2_Witness ==
    /\ Returned("set_len_anis")
    /\ call.args = <<3, Array(<<One, Two>>), Array(<<Half, Half>>)>>
    /\ ret.value = <<One, <<Two, Two>>>>

\* C3: set_len_anis raises the ValueError that carries the ratio list if and
\* only if some anisotropy ratio is not > 0, in both modes, so every ratio
\* it returns is > 0.
C3_InvalidAnisotropy ==
    (Finished("set_len_anis") /\ Len(Truncated(call.args[1], call.args[2])) >= 1) =>
        LET dim    == call.args[1]
            ls     == Truncated(dim, call.args[2])
            ratios == IF Len(ls) = 1 THEN SetAnis(dim, call.args[3])
                      ELSE DerivedRatios(dim, ls)
            bad    == \E i \in DOMAIN ratios : ~FGt(ratios[i], Zero)
        IN  /\ bad <=> ret = Raise("ValueError", ratios)
            /\ ~bad <=> ret.kind = "return"
            /\ ret.kind = "return" =>
                  \A i \in DOMAIN ret.value[2] : FGt(ret.value[2][i], Zero)

\* set_len_anis(3, 1.0, [NaN]) has raised, carrying the ratios [1.0, NaN]
C3_Witness ==
    /\ Raised("set_len_anis", "ValueError")
    /\ call.args = <<3, Scalar(One), Array(<<NaN>>)>>
    /\ ret.value = <<One, NaN>>

\* ------------------------------------------------------------ check_bounds
\* C4: check_bounds(bounds) is true if and only if the length is 2 or 3,
\* bounds[1] > bounds[0], and a third entry is one of oo, oc, co, cc; every
\* other sequence gives false, none an error.
C4_ValidIffRules ==
    Finished("check_bounds") =>
        LET bounds == call.args[1]
        IN  /\ ret.kind = "return"
            /\ ret.value <=> /\ Len(bounds) \in {2, 3}
                             /\ FGt(bounds[2], bounds[1])
                             /\ Len(bounds) = 3 => bounds[3] \in Tags

\* ------------------------------------------------------------ default_arg_from_bounds
\* C6 as stated: for every pair, both endpoints finite gives the midpoint,
\* only the lower finite gives lower + 1, only the upper finite gives
\* upper - 1, neither finite gives 0.
C6_PolicyByFiniteness ==
    Returned("default_arg_from_bounds") =>
        LET lower == call.args[1][1]
            upper == call.args[1][2]
        IN  ret.value =
              IF IsFinite(lower) /\ IsFinite(upper) THEN FDiv(FAdd(lower, upper), Two)
              ELSE IF IsFinite(lower) THEN FAdd(lower, One)
              ELSE IF IsFinite(upper) THEN FSub(upper, One)
              ELSE Zero

\* C6 amended: the policy tests lower > -inf and upper < +inf, in this
\* order: both hold gives (lower+upper)/2; else lower > -inf gives
\* lower + 1; else upper < +inf gives upper - 1; else 0.
C6_PolicyByComparison ==
    Returned("default_arg_from_bounds") =>
        LET lower   == call.args[1][1]
            upper   == call.args[1][2]
            lowerOk == lower \notin {NInf, NaN}
            upperOk == upper \notin {PInf, NaN}
        IN  /\ (lowerOk /\ upperOk) => ret.value = FDiv(FAdd(lower, upper), Two)
            /\ (lowerOk /\ ~upperOk) => ret.value = FAdd(lower, One)
            /\ (~lowerOk /\ upperOk) => ret.value = FAdd(upper, FNeg(One))
            /\ (~lowerOk /\ ~upperOk) => ret.value = Zero

\* default_arg_from_bounds((+inf, 1.0)) has returned +inf: the midpoint
\* rule applied to a lower endpoint that is not finite
C6_Witness ==
    /\ Returned("default_arg_from_bounds")
    /\ call.args[1] = <<PInf, One>>
    /\ ret.value = PInf

\* ------------------------------------------------------------ check_arg_in_bounds
\* the bounds of the argument of the call, with their interval type, and
\* the value the call classifies
CallArg == call.args[1]

CallBounds ==
    LET b == model.arg_bounds[CallArg]
    IN  IF Len(b) = 2 THEN <<b[1], b[2], <<"c", "c">>>> ELSE b

CallValue == IF call.args[2] = <<>> THEN model.attrs[CallArg] ELSE call.args[2][1]

LowerViolated(b, v) == IF b[3][1] = "c" THEN FLt(v, b[1]) ELSE FLe(v, b[1])

UpperViolated(b, v) == IF b[3][2] = "c" THEN FGt(v, b[2]) ELSE FGe(v, b[2])

InInterval(b, v) ==
    /\ IF b[3][1] = "c" THEN FGe(v, b[1]) ELSE FGt(v, b[1])
    /\ IF b[3][2] = "c" THEN FLe(v, b[2]) ELSE FLt(v, b[2])

\* C1: with upper > lower, check_arg_in_bounds returns 1 for val < a closed
\* lower endpoint, 2 for val <= an open one, 3 for val > a closed upper
\* endpoint, 4 for val >= an open one and 0 otherwise; no two of these hold
\* at once, and the result is 0 if and only if val lies in the interval.  A
\* pair counts as cc, and without val the attribute is classified.
C1_ClassifiesInterval ==
    (Returned("check_arg_in_bounds") /\ FGt(CallBounds[2], CallBounds[1])) =>
        LET b == CallBounds
            v == CallValue
        IN  /\ ~(LowerViolated(b, v) /\ UpperViolated(b, v))
            /\ ret.value = IF LowerViolated(b, v) THEN (IF b[3][1] = "c" THEN 1 ELSE 2)
                           ELSE IF UpperViolated(b, v) THEN (IF b[3][2] = "c" THEN 3 ELSE 4)
                           ELSE 0
            /\ ret.value = 0 <=> InInterval(b, v)

\* C5: for bounds that check_bounds accepts, check_arg_in_bounds classifies
\* the value default_arg_from_bounds(bounds) as 0.
C5_DefaultInBounds ==
    (/\ Returned("check_arg_in_bounds")
     /\ CheckBounds(model.arg_bounds[CallArg])
     /\ call.args[2] = <<DefaultArgFromBounds(model.arg_bounds[CallArg])>>)
        => ret.value = 0

\* C7: check_arg_in_bounds raises the ValueError naming arg whenever arg is
\* no key of model.arg_bounds, whatever val is and before the attribute is
\* read; when arg is a key it does not raise it.
C7_UnknownArgument ==
    Finished("check_arg_in_bounds") =>
        /\ CallArg \notin DOMAIN model.arg_bounds =>
              ret.kind = "raise" /\ ret.exc = "ValueError" /\ ret.value = CallArg
        /\ CallArg \in DOMAIN model.arg_bounds => ~(ret.kind = "raise" /\ ret.exc = "ValueError")

\* the call with an unknown argument, no val and no such attribute has
\* raised the ValueError
C7_Witness ==
    /\ Raised("check_arg_in_bounds", "ValueError")
    /\ call.args = <<"var", <<>>>>
    /\ "var" \notin DOMAIN model.arg_bounds
    /\ "var" \notin DOMAIN model.attrs

\* C9: a call of check_arg_in_bounds leaves the model as it was (a pair of
\* bounds stays a pair), and a repeated call with the same model, arg and
\* val gives what the call before gave.
C9_ModelUnchanged ==
    [][/\ model' = model
       /\ ret.kind # "" => ret' = ret]_vars

\* the call has returned for an argument whose bounds are a pair
C9_Witness ==
    /\ Returned("check_arg_in_bounds")
    /\ Len(model.arg_bounds[CallArg]) = 2

\* C10: when a lower and an upper violation both hold, the case returned is
\* the upper one: 3 for a closed upper endpoint, 4 for an open one.
C10_UpperOverridesLower ==
    (/\ Returned("check_arg_in_bounds")
     /\ LowerViolated(CallBounds, CallValue)
     /\ UpperViolated(CallBounds, CallValue))
        => ret.value = IF CallBounds[3][2] = "c" THEN 3 ELSE 4

\* bounds (1.0, 0.0, "oo") and val 0.5: both checks trigger, 4 is returned
C10_Witness ==
    /\ Returned("check_arg_in_bounds")
    /\ model.arg_bounds[CallArg] = <<One, Zero, <<"o", "o">>>>
    /\ call.args[2] = <<Half>>
    /\ ret.value = 4

====
